---- MODULE Spec2Model ----
(***************************************************************************)
(* Task lifecycle and result retrieval of the OSINT framework server       *)
(* (src/server.py): CreateTaskHandler.post and ResultsHandler.get, with    *)
(* their collaborators (TaskCrud, Publisher, TaskSpawner, RedisCache) and  *)
(* the queue consumer.  Every request gets its own handler object, which   *)
(* is modelled one blocking call at a time, so that several requests and   *)
(* the consumer interleave at every I/O call.                              *)
(***************************************************************************)
EXTENDS Integers, Sequences, FiniteSets, TLC

\* ---- bounds ----
MaxTasks == 2        \* task identifiers that can be allocated
MaxRequests == 3     \* requests served in one behaviour

TaskIds == 1..MaxTasks
\* one handler object per request, numbered in the order of arrival
Handlers == 1..MaxRequests

\* ---- TaskStatus (src.server.structures.task) ----
PENDING == "pending"
SUCCESS == "success"
ERROR == "error"
Terminal == {SUCCESS, ERROR}

\* Python's None; also the falsy value of `if redis_cache:`
None == <<>>

\* values of the 'type' query argument that requests carry
TypeValues == {"queue", "process", "thread"}
\* a request either omits the argument or gives it one value
RequestArgs == {<<>>} \cup {[type |-> v] : v \in TypeValues}

\* what an executor (synchronous or consumer) can leave in the store
Outcomes == {[status |-> SUCCESS, results |-> <<"y">>],
             [status |-> ERROR, results |-> <<"e">>]}

VARIABLES
    store,          \* Task Record Store: task id -> [status, results]
    cache,          \* Result Cache (redis): task id -> serialized results
    queue,          \* Work Queue: task ids published and not yet consumed
    nextId,         \* next identifier TaskItem() allocates
    pc,             \* per handler: position in the handler's code
    handler,        \* per handler: its class ("create" or "results")
    arguments,      \* per handler: the query arguments of its request
    task_id,        \* per handler: the task the request is about
    execution_type, \* per handler: CreateTaskHandler.post's execution_type
    db_results,     \* per handler: ResultsHandler.get's db_results
    response,       \* per handler: status code and body written
    creates,        \* per task id: TaskCrud.create_task calls
    runs,           \* per task id: TaskSpawner.run_task calls
    publishes,      \* per task id: publisher.publish_task calls
    storeReads,     \* per task id: TaskCrud.get_results calls
    ioloop          \* what the IOLoop thread runs beside the handlers

vars == <<store, cache, queue, nextId, pc, handler, arguments, task_id,
          execution_type, db_results, response, creates, runs, publishes,
          storeReads, ioloop>>

\* ---- responses (BaseHandler) ----
\* self.write(body): status 200
Write(body) == [status |-> 200, body |-> body]
\* self.error(msg): status 500, the message names the handler's prefix and
\* str(exception)
Error(prefix, what) == [status |-> 500, body |-> <<prefix, what>>]
NoResponse == [status |-> 0, body |-> <<>>]

\* ---- serialization ----
\* dumps(db_results, default=str): the JSON text of {"task": {...}, "results": [...]}
dumps(obj) ==
    <<"task", "id", obj.task.id, "status", obj.task.status, "results">>
        \o obj.results
\* json_encode(task.as_json()): identity and initial status of the new task
TaskItem_as_json(task) == <<"task_id", task.id, "status", task.status>>

\* the default is dropped: a missing argument reads as the empty string
get_argument_nodefault(args, name, default) ==
    IF name \in DOMAIN args THEN args[name] ELSE ""
\* self.get_argument(name, default=...)
get_argument(args, name, default) ==
    IF name \in DOMAIN args THEN args[name] ELSE default

\* ---- collaborators ----
\* TaskItem(): a fresh identity in PENDING status
TaskItem(id) == [id |-> id, status |-> PENDING]
\* TaskCrud.create_task(task): persist the initial record
TaskCrud_create_task(s, task) ==
    [i \in DOMAIN s \cup {task.id} |->
        IF i = task.id THEN [status |-> task.status, results |-> <<>>] ELSE s[i]]
\* updateStatus(id, status, resultPayload) of the store, as executors call it
TaskCrud_update_task(s, id, outcome) ==
    [i \in DOMAIN s |-> IF i = id THEN outcome ELSE s[i]]
\* TaskCrud.get_results(task_id) raises TaskNotFoundError: no record
TaskNotFound(s, id) == id \notin DOMAIN s
\* TaskCrud.get_results(task_id) for an existing record
TaskCrud_get_results(s, id) ==
    [task |-> [id |-> id, status |-> s[id].status], results |-> s[id].results]
\* redis.get(key)
redis_get(c, key) == IF key \in DOMAIN c THEN c[key] ELSE None
\* the value is written under every key
redis_set_anykey(c, key, value) == [k \in DOMAIN c \cup TaskIds |-> value]
\* redis.set(key, value)
redis_set(c, key, value) ==
    [k \in DOMAIN c \cup {key} |-> IF k = key THEN value ELSE c[k]]

Init ==
    /\ store = <<>>
    /\ cache = <<>>
    /\ queue = {}
    /\ nextId = 1
    /\ pc = [p \in Handlers |-> "new"]
    /\ handler = [p \in Handlers |-> "none"]
    /\ arguments = [p \in Handlers |-> <<>>]
    /\ task_id = [p \in Handlers |-> 0]
    /\ execution_type = [p \in Handlers |-> ""]
    /\ db_results = [p \in Handlers |-> None]
    /\ response = [p \in Handlers |-> NoResponse]
    /\ creates = [i \in TaskIds |-> 0]
    /\ runs = [i \in TaskIds |-> 0]
    /\ publishes = [i \in TaskIds |-> 0]
    /\ storeReads = [i \in TaskIds |-> 0]
    /\ ioloop = "idle"

\* the next request arrives: its handler object is the next one not yet used
Arrives(p) == pc[p] = "new" /\ (p > 1 => pc[p - 1] # "new")

CreatePrefix == "Unexpected error at task creating"
ResultsPrefix == "Unexpected error at getting results"
UnsupportedPrefix == "Unsupported value for parameter 'type'"

\* an unrecognised mode falls through to the queue
DispatchOf_default(et) ==
    IF et = "process" THEN {"run"} ELSE {"publish"}
\* mode 'process' also reaches the publish
DispatchOf_both(et) ==
    IF et = "process" THEN {"run", "publish"}
    ELSE IF et = "queue" THEN {"publish"}
    ELSE {}
\* the two modes are taken for each other
DispatchOf_swapped(et) ==
    IF et = "process" THEN {"publish"}
    ELSE IF et = "queue" THEN {"run"}
    ELSE {}
\* which branch of the if/elif/else of CreateTaskHandler.post is taken
DispatchOf(et) ==
    IF et = "process" THEN {"run"}
    ELSE IF et = "queue" THEN {"publish"}
    ELSE {}

\* the record is not persisted before the dispatch
post_create_task_late(s, task, ok) == s
\* `TaskCrud.create_task(task=task)` (line 99), before the dispatch
post_create_task(s, task, ok) ==
    IF ok THEN TaskCrud_create_task(s, task) ELSE s

\* the exception is swallowed and the task is answered all the same
CreateTaskHandler_except_swallow(task, err) == Write(TaskItem_as_json(task))
\* `except Exception as create_task_err` (lines 110-113)
CreateTaskHandler_except(task, err) == Error(CreatePrefix, err)

\* CreateTaskHandler.post, lines 95-99: read the mode, allocate the task and
\* persist its PENDING record; create_task may raise
CreateTaskHandler_post(p) ==
    /\ Arrives(p)
    /\ nextId <= MaxTasks
    /\ \E args \in RequestArgs, ok \in BOOLEAN :
         LET task == TaskItem(nextId) IN
         /\ nextId' = nextId + 1
         /\ handler' = [handler EXCEPT ![p] = "create"]
         /\ arguments' = [arguments EXCEPT ![p] = args]
         /\ task_id' = [task_id EXCEPT ![p] = task.id]
         /\ execution_type' =
                [execution_type EXCEPT ![p] = get_argument(args, "type", "queue")]
         /\ creates' = [creates EXCEPT ![task.id] = @ + 1]
         /\ store' = post_create_task(store, task, ok)
         /\ IF ok
            THEN /\ pc' = [pc EXCEPT ![p] = "dispatch"]
                 /\ UNCHANGED response
            ELSE /\ pc' = [pc EXCEPT ![p] = "done"]
                 /\ response' = [response EXCEPT ![p] =
                        CreateTaskHandler_except(task, "StoreError")]
    /\ UNCHANGED <<ioloop, cache, queue, db_results, runs, publishes, storeReads>>

\* CreateTaskHandler.post, lines 100-114: dispatch by mode and answer.
\* run_task performs the terminal transition before it returns; run_task and
\* publish_task may raise, which the handler answers with the creation error
CreateTaskHandler_post_dispatch(p) ==
    /\ pc[p] = "dispatch"
    /\ LET id == task_id[p]
           task == TaskItem(id)
           branch == DispatchOf(execution_type[p])
       IN \E ok \in BOOLEAN, outcome \in Outcomes :
            /\ runs' = IF "run" \in branch
                       THEN [runs EXCEPT ![id] = @ + 1]
                       ELSE runs
            /\ publishes' =
                   IF "publish" \in branch
                   THEN [publishes EXCEPT ![id] = @ + 1]
                   ELSE publishes
            /\ store' = IF "run" \in branch /\ ok
                        THEN TaskCrud_update_task(store, id, outcome)
                        ELSE store
            /\ queue' = IF "publish" \in branch /\ ok
                        THEN queue \cup {id}
                        ELSE queue
            /\ response' = [response EXCEPT ![p] =
                   IF branch = {}
                   THEN Error(UnsupportedPrefix, execution_type[p])
                   ELSE IF ok THEN Write(TaskItem_as_json(task))
                   ELSE CreateTaskHandler_except(task, "DispatchError")]
    /\ pc' = [pc EXCEPT ![p] = "done"]
    /\ UNCHANGED <<ioloop, cache, nextId, handler, arguments, task_id, execution_type,
                   db_results, creates, storeReads>>

\* the cache is never taken as available
CacheAvailable_never(redis_cache) == FALSE
\* `if redis_cache:` (line 180)
CacheAvailable(redis_cache) == redis_cache # None

\* db_results.get("task", {}).get("status", "") (line 187)
StatusOf(results) ==
    IF "task" \in DOMAIN results /\ "status" \in DOMAIN results.task
    THEN results.task.status
    ELSE ""
\* the status gate compares with a value no status has
SkipCacheSaving_nogate(results) == StatusOf(results) = "PENDING"
\* `== TaskStatus.PENDING`: skip cache saving (lines 187-189)
SkipCacheSaving(results) == StatusOf(results) = PENDING

\* the exception is written as an ordinary answer
ResultsHandler_except_write(err) == Write(<<ResultsPrefix, err>>)
\* `except Exception as get_results_error` (lines 194-197)
ResultsHandler_except(err) == Error(ResultsPrefix, err)

\* ResultsHandler.get, lines 177-182: look the task up in the cache and
\* answer from it when it is there
ResultsHandler_get(p) ==
    /\ Arrives(p)
    /\ \E id \in TaskIds :
         LET redis_cache == redis_get(cache, id) IN
         /\ arguments' = [arguments EXCEPT ![p] = [task_id |-> id]]
         /\ task_id' = [task_id EXCEPT ![p] = id]
         /\ IF CacheAvailable(redis_cache)
            THEN /\ pc' = [pc EXCEPT ![p] = "done"]
                 /\ response' = [response EXCEPT ![p] = Write(redis_cache)]
            ELSE /\ pc' = [pc EXCEPT ![p] = "get_results"]
                 /\ UNCHANGED response
    /\ handler' = [handler EXCEPT ![p] = "results"]
    /\ UNCHANGED <<ioloop, store, cache, queue, nextId, execution_type, db_results,
                   creates, runs, publishes, storeReads>>

\* ResultsHandler.get, lines 184-189: read the record from the store; a
\* missing record raises, a pending one is answered without caching
ResultsHandler_get_results(p) ==
    /\ pc[p] = "get_results"
    /\ storeReads' = [storeReads EXCEPT ![task_id[p]] = @ + 1]
    /\ IF TaskNotFound(store, task_id[p])
       THEN /\ pc' = [pc EXCEPT ![p] = "done"]
            /\ response' =
                   [response EXCEPT ![p] = ResultsHandler_except("TaskNotFoundError")]
            /\ UNCHANGED db_results
       ELSE LET results == TaskCrud_get_results(store, task_id[p]) IN
            /\ db_results' = [db_results EXCEPT ![p] = results]
            /\ IF SkipCacheSaving(results)
               THEN /\ pc' = [pc EXCEPT ![p] = "done"]
                    /\ response' = [response EXCEPT ![p] = Write(dumps(results))]
               ELSE /\ pc' = [pc EXCEPT ![p] = "set"]
                    /\ UNCHANGED response
    /\ UNCHANGED <<ioloop, store, cache, queue, nextId, handler, arguments, task_id,
                   execution_type, creates, runs, publishes>>

\* ResultsHandler.get, lines 191-197: save the results in the cache and
\* answer; redis.set may raise
ResultsHandler_get_set(p) ==
    /\ pc[p] = "set"
    /\ LET json_results == dumps(db_results[p]) IN
       \E ok \in BOOLEAN :
         IF ok
         THEN /\ cache' = redis_set(cache, task_id[p], json_results)
              /\ response' = [response EXCEPT ![p] = Write(json_results)]
         ELSE /\ cache' = cache
              /\ response' =
                     [response EXCEPT ![p] = ResultsHandler_except("CacheError")]
    /\ pc' = [pc EXCEPT ![p] = "done"]
    /\ UNCHANGED <<ioloop, store, queue, nextId, handler, arguments, task_id,
                   execution_type, db_results, creates, runs, publishes,
                   storeReads>>

\* the queue consumer takes one published task and records its outcome
Consumer(id) ==
    /\ id \in queue
    /\ queue' = queue \ {id}
    /\ \E outcome \in Outcomes :
         store' = TaskCrud_update_task(store, id, outcome)
    /\ UNCHANGED <<ioloop, cache, nextId, pc, handler, arguments, task_id,
                   execution_type, db_results, response, creates, runs,
                   publishes, storeReads>>

Next ==
    \/ \E p \in Handlers : CreateTaskHandler_post(p)
    \/ \E p \in Handlers : CreateTaskHandler_post_dispatch(p)
    \/ \E p \in Handlers : ResultsHandler_get(p)
    \/ \E p \in Handlers : ResultsHandler_get_results(p)
    \/ \E p \in Handlers : ResultsHandler_get_set(p)
    \/ \E id \in TaskIds : Consumer(id)

Spec == Init /\ [][Next]_vars

\* the record of a finished task is changed out of band (spec, section 9):
\* another terminal outcome is written over it; the server takes no part
TaskCrud_corrected(id) ==
    /\ id \in DOMAIN store
    /\ store[id].status \in Terminal
    /\ \E outcome \in Outcomes \ {store[id]} :
         store' = TaskCrud_update_task(store, id, outcome)
    /\ UNCHANGED <<ioloop, cache, queue, nextId, pc, handler, arguments, task_id,
                   execution_type, db_results, response, creates, runs,
                   publishes, storeReads>>

NextOutOfBand ==
    \/ Next
    \/ \E id \in TaskIds : TaskCrud_corrected(id)

\* the server next to an operator who corrects finished records
SpecOutOfBand == Init /\ [][NextOutOfBand]_vars

\* ---- the periodic queue polling (lines 239-247) ----
\* the polling call never comes back
process_data_events_blocks == FALSE
\* publisher.process_data_events() with its default time limit of 0 handles
\* the events that are ready and comes back
process_data_events_returns == TRUE

\* what the polling callback leaves alone
HandlerState ==
    <<store, cache, queue, nextId, pc, handler, arguments, task_id,
      execution_type, db_results, response, creates, runs, publishes,
      storeReads>>

\* the IOLoop runs the PeriodicCallback: it calls process_data_events()
PeriodicCallback_run ==
    /\ ioloop = "idle"
    /\ ioloop' = "polling"
    /\ UNCHANGED HandlerState

\* process_data_events() comes back and the callback is scheduled again
PeriodicCallback_return ==
    /\ ioloop = "polling"
    /\ process_data_events_returns
    /\ ioloop' = "idle"
    /\ UNCHANGED HandlerState

\* a request handler goes on after one of its external calls
HandlerStep(p) ==
    \/ CreateTaskHandler_post_dispatch(p)
    \/ ResultsHandler_get_results(p)
    \/ ResultsHandler_get_set(p)

\* IOLoop.current().start(): one thread runs the handlers and the callback,
\* so no handler runs while the callback does
NextPolling ==
    \/ ioloop = "idle" /\ Next
    \/ PeriodicCallback_run
    \/ PeriodicCallback_return

\* The IOLoop runs the periodic callback whenever it is due, and between two
\* runs of the callback it runs a handler that is ready: the handlers are
\* enabled again and again, not all the time, hence the strong fairness.
SpecPolling ==
    /\ Init
    /\ [][NextPolling]_vars
    /\ WF_vars(PeriodicCallback_run)
    /\ WF_vars(PeriodicCallback_return)
    /\ SF_vars(ioloop = "idle" /\ \E p \in Handlers : HandlerStep(p))

(***************************************************************************)
(* Properties                                                              *)
(***************************************************************************)
\* a handler that has answered a request of the given handler class
Answered(p, h) == pc[p] = "done" /\ handler[p] = h
\* the handler takes its get_results step (TaskCrud.get_results is called)
ReadsStore(p) == pc[p] = "get_results" /\ pc'[p] # "get_results"
\* the handler takes its redis.set step
SetsCache(p) == pc[p] = "set" /\ pc'[p] # "set"
\* the handler starts serving its request
Begins(p) == pc[p] = "new" /\ pc'[p] # "new"

\* C1: a cache entry is only ever written by a result query whose store read
\* found a record in a terminal status, and the entry is what that query read;
\* nothing is written for a pending or a missing record.
C1_CacheOnlyTerminal ==
    [][\A id \in TaskIds :
         redis_get(cache', id) # redis_get(cache, id) =>
           \E p \in Handlers :
             /\ SetsCache(p)
             /\ handler[p] = "results"
             /\ task_id[p] = id
             /\ StatusOf(db_results[p]) \in Terminal
             /\ redis_get(cache', id) = dumps(db_results[p])]_vars

C1_Witness ==
    \E p \in Handlers :
      /\ Answered(p, "results")
      /\ StatusOf(db_results[p]) \in Terminal
      /\ task_id[p] \in DOMAIN cache
      /\ cache[task_id[p]] = dumps(db_results[p])

\* C2: a result query that reads a PENDING record for an identifier without a
\* cache entry answers with the pending view of the store and leaves the cache
\* as it was, without an entry for the identifier.
C2_PendingNotCached ==
    [][\A p \in Handlers :
         (/\ ReadsStore(p)
          /\ task_id[p] \in DOMAIN store
          /\ store[task_id[p]].status = PENDING
          /\ task_id[p] \notin DOMAIN cache)
         => /\ pc'[p] = "done"
            /\ response'[p] =
                   Write(dumps(TaskCrud_get_results(store, task_id[p])))
            /\ cache' = cache
            /\ task_id[p] \notin DOMAIN cache']_vars

C2_Witness ==
    \E p \in Handlers :
      /\ Answered(p, "results")
      /\ StatusOf(db_results[p]) = PENDING
      /\ response[p] = Write(dumps(db_results[p]))
      /\ task_id[p] \notin DOMAIN cache

\* C3 as stated: once a result query has read a terminal record from the
\* store and answered, every result query that starts afterwards for the same
\* identifier is answered from the cache and makes no store read.
C3_Original ==
    [][\A p, q \in Handlers :
         (/\ Answered(p, "results")
          /\ StatusOf(db_results[p]) \in Terminal
          /\ Begins(q) /\ handler'[q] = "results"
          /\ task_id'[q] = task_id[p])
         => /\ pc'[q] = "done"
            /\ task_id[p] \in DOMAIN cache
            /\ response'[q] = Write(cache[task_id[p]])]_vars

\* C3 (amended): a result query that read a terminal record and whose cache
\* write succeeds leaves its answer in the cache; a result query that starts
\* when the entry exists is answered from the cache and no store read is made.
C3_ServedFromCache ==
    [][\A p \in Handlers :
         /\ (SetsCache(p) /\ response'[p].status = 200)
            => /\ task_id[p] \in DOMAIN cache'
               /\ response'[p] = Write(cache'[task_id[p]])
         /\ (Begins(p) /\ handler'[p] = "results"
                 /\ task_id'[p] \in DOMAIN cache)
            => /\ pc'[p] = "done"
               /\ response'[p] = Write(cache[task_id'[p]])
               /\ cache' = cache
               /\ storeReads' = storeReads]_vars

C3_Witness ==
    \E p \in Handlers :
      /\ Answered(p, "results")
      /\ db_results[p] = None
      /\ task_id[p] \in DOMAIN cache
      /\ response[p] = Write(cache[task_id[p]])
      /\ storeReads[task_id[p]] = 1

\* C4: a result query whose store read finds no record for the identifier
\* ends with the error answer that names TaskNotFoundError, never with a
\* successful answer, and writes nothing to the cache.
C4_NotFound ==
    [][\A p \in Handlers :
         (ReadsStore(p) /\ task_id[p] \notin DOMAIN store
              /\ task_id[p] \notin DOMAIN cache)
         => /\ pc'[p] = "done"
            /\ response'[p].status = 500
            /\ response'[p].body = <<ResultsPrefix, "TaskNotFoundError">>
            /\ cache' = cache]_vars

C4_Witness ==
    \E p \in Handlers :
      /\ Answered(p, "results")
      /\ task_id[p] \notin DOMAIN store
      /\ task_id[p] \notin DOMAIN cache
      /\ response[p] = Error(ResultsPrefix, "TaskNotFoundError")

\* C5 as stated: a creation request with an unrecognised mode is answered with
\* the unsupported-mode error, and no run and no publish is made for it.
C5_Original ==
    \A p \in Handlers :
      (Answered(p, "create") /\ execution_type[p] \notin {"queue", "process"})
      => /\ response[p] = Error(UnsupportedPrefix, execution_type[p])
         /\ runs[task_id[p]] = 0
         /\ publishes[task_id[p]] = 0

\* C5 (amended): a creation request with an unrecognised mode fails, and no
\* run and no publish is made for it; the answer is the unsupported-mode error
\* naming the value when the record was created, and the creation error when
\* the record creation itself raised.
C5_UnsupportedMode ==
    \A p \in Handlers :
      (Answered(p, "create") /\ execution_type[p] \notin {"queue", "process"})
      => /\ response[p].status = 500
         /\ runs[task_id[p]] = 0
         /\ publishes[task_id[p]] = 0
         /\ task_id[p] \notin queue
         /\ task_id[p] \in DOMAIN store
              => /\ response[p] = Error(UnsupportedPrefix, execution_type[p])
                 /\ store[task_id[p]].status = PENDING
         /\ task_id[p] \notin DOMAIN store
              => response[p] = Error(CreatePrefix, "StoreError")

C5_Witness ==
    \E p \in Handlers :
      /\ Answered(p, "create")
      /\ execution_type[p] = "thread"
      /\ response[p] = Error(UnsupportedPrefix, "thread")
      /\ task_id[p] \in DOMAIN store

\* C6: the record is in the store before the task is dispatched: a task that
\* was run or published has a record; while a published task of a successful
\* 'queue' creation waits in the queue its record is PENDING; and after a
\* successful creation the store has a record for the task.
C6_RecordBeforeDispatch ==
    /\ \A id \in TaskIds :
         (runs[id] + publishes[id] > 0 \/ id \in queue) => id \in DOMAIN store
    /\ \A p \in Handlers :
         (Answered(p, "create") /\ response[p].status = 200)
         => /\ task_id[p] \in DOMAIN store
            /\ (execution_type[p] = "queue" /\ task_id[p] \in queue)
                 => store[task_id[p]].status = PENDING

C6_Witness ==
    \E p \in Handlers :
      /\ Answered(p, "create")
      /\ response[p].status = 200
      /\ execution_type[p] = "queue"
      /\ task_id[p] \in queue
      /\ store[task_id[p]].status = PENDING

\* C7: a successful creation request made exactly one record creation and
\* exactly one dispatch: one run and no publish for 'process', one publish and
\* no run for 'queue'.
C7_OneCreationOneDispatch ==
    \A p \in Handlers :
      (Answered(p, "create") /\ response[p].status = 200)
      => /\ creates[task_id[p]] = 1
         /\ \/ /\ execution_type[p] = "process"
               /\ runs[task_id[p]] = 1
               /\ publishes[task_id[p]] = 0
            \/ /\ execution_type[p] = "queue"
               /\ publishes[task_id[p]] = 1
               /\ runs[task_id[p]] = 0

C7_Witness ==
    \E p, q \in Handlers :
      /\ Answered(p, "create") /\ response[p].status = 200
      /\ Answered(q, "create") /\ response[q].status = 200
      /\ execution_type[p] = "process"
      /\ execution_type[q] = "queue"

\* C8: a record enters the store in PENDING status, and its status changes
\* only from PENDING to SUCCESS or from PENDING to ERROR.
C8_StatusChangesOnce ==
    [][\A id \in DOMAIN store' :
         IF id \notin DOMAIN store
         THEN store'[id].status = PENDING
         ELSE store'[id] # store[id]
                => store[id].status = PENDING /\ store'[id].status \in Terminal]_vars

C8_Witness ==
    \E id, other \in DOMAIN store :
      /\ store[id].status = SUCCESS /\ runs[id] = 1
      /\ store[other].status = ERROR /\ publishes[other] = 1
      /\ other \notin queue

\* C9: when the redis.set of a result query that read a terminal record
\* fails, the query still answers with the result read from the store.
C9_CacheWriteFailureNotPropagated ==
    [][\A p \in Handlers :
         SetsCache(p) => response'[p] = Write(dumps(db_results[p]))]_vars

\* a result query answered for a task that was in a terminal status: from a
\* terminal record of the store, or from the cache
TerminalQuery(p) ==
    /\ Answered(p, "results")
    /\ \/ StatusOf(db_results[p]) \in Terminal
       \/ db_results[p] = None /\ response[p].status = 200

\* C10: two result queries for the same identifier in a terminal status give
\* the same answer.
C10_IdenticalResults ==
    \A p, q \in Handlers :
      (TerminalQuery(p) /\ TerminalQuery(q) /\ task_id[p] = task_id[q])
      => /\ response[p].status = response[q].status
         /\ response[p].body = response[q].body

CreateRaises(p) ==
    Begins(p) /\ handler'[p] = "create" /\ task_id'[p] \notin DOMAIN store'
\* the creation handler's run_task or publish_task call raised in this step
DispatchRaises(p) ==
    /\ pc[p] = "dispatch" /\ pc'[p] = "done"
    /\ \/ runs' # runs /\ store' = store
       \/ publishes' # publishes /\ queue' = queue

\* C12: when create_task, run_task or publish_task raises, the creation
\* request is answered with the creation error and not with the serialized
\* task, and nothing is retried: for every task there is at most one
\* create_task call and at most one dispatch call.
C12_FailureSurfacedNoRetry ==
    [][/\ \A p \in Handlers :
            (CreateRaises(p) \/ DispatchRaises(p))
            => /\ pc'[p] = "done"
               /\ response'[p].status = 500
               /\ response'[p].body[1] = CreatePrefix
       /\ \A id \in TaskIds :
            creates'[id] <= 1 /\ runs'[id] + publishes'[id] <= 1]_vars

C12_Witness ==
    \E p, q \in Handlers :
      /\ Answered(p, "create")
      /\ response[p] = Error(CreatePrefix, "DispatchError")
      /\ publishes[task_id[p]] = 1
      /\ task_id[p] \notin queue
      /\ Answered(q, "create")
      /\ response[q] = Error(CreatePrefix, "StoreError")
      /\ creates[task_id[q]] = 1

\* a successfully answered creation request with mode 'process'
ProcessCreated(p) ==
    /\ Answered(p, "create")
    /\ response[p].status = 200
    /\ execution_type[p] = "process"
\* the result query q for the task of p is answered in this step
AnswersFor(q, p) ==
    /\ handler'[q] = "results"
    /\ task_id'[q] = task_id[p]
    /\ pc[q] # "done" /\ pc'[q] = "done"
\* the status named in a serialized result
BodyStatus(body) == IF Len(body) >= 5 THEN body[5] ELSE ""

C14_DefaultIsQueue ==
    \A p \in Handlers :
      (Answered(p, "create") /\ "type" \notin DOMAIN arguments[p])
      => /\ execution_type[p] = "queue"
         /\ runs[task_id[p]] = 0
         /\ task_id[p] \in DOMAIN store => publishes[task_id[p]] = 1
         /\ task_id[p] \notin DOMAIN store => publishes[task_id[p]] = 0
         /\ response[p].status = 200
              => /\ task_id[p] \in DOMAIN store
                 /\ response[p] = Write(TaskItem_as_json(TaskItem(task_id[p])))

C14_Witness ==
    \E p \in Handlers :
      /\ Answered(p, "create")
      /\ "type" \notin DOMAIN arguments[p]
      /\ response[p].status = 200
      /\ task_id[p] \in queue
      /\ publishes[task_id[p]] = 1
      /\ runs[task_id[p]] = 0

\* the answer is the pending view of a task
PendingView(resp) == resp.status = 200 /\ BodyStatus(resp.body) = PENDING

\* C15: once the record of a task is terminal, no result query that is
\* answered from then on gets the pending view, whatever queries were answered
\* with the pending view before.
C15_NoStalePending ==
    [][\A q \in Handlers :
         (/\ handler'[q] = "results"
          /\ pc[q] # "done" /\ pc'[q] = "done"
          /\ task_id'[q] \in DOMAIN store
          /\ store[task_id'[q]].status \in Terminal)
         => ~PendingView(response'[q])]_vars

\* a query got the pending view, a later one the terminal result
C15_Witness ==
    \E p, q \in Handlers :
      /\ p < q
      /\ Answered(p, "results") /\ Answered(q, "results")
      /\ task_id[p] = task_id[q]
      /\ PendingView(response[p])
      /\ response[q].status = 200
      /\ BodyStatus(response[q].body) \in Terminal

\* C16: result queries that are about to write the cache for the same
\* identifier all write the same value, and where the cache already has an
\* entry for the identifier it is that value: the order of the writes does
\* not show in the cache.
C16_SameValueWritten ==
    \A p, q \in Handlers :
      (pc[p] = "set" /\ pc[q] = "set" /\ task_id[p] = task_id[q])
      => /\ dumps(db_results[p]) = dumps(db_results[q])
         /\ task_id[p] \in DOMAIN cache
              => cache[task_id[p]] = dumps(db_results[p])

\* two queries missed the cache and both are about to write it
C16_Witness ==
    \E p, q \in Handlers :
      /\ p # q
      /\ pc[p] = "set" /\ pc[q] = "set"
      /\ task_id[p] = task_id[q]
      /\ StatusOf(db_results[p]) \in Terminal

\* the store record or the cache entry of the identifier changes in the step
Touched(id) ==
    \/ (id \in DOMAIN store) # (id \in DOMAIN store')
    \/ id \in DOMAIN store /\ id \in DOMAIN store' /\ store'[id] # store[id]
    \/ (id \in DOMAIN cache) # (id \in DOMAIN cache')
    \/ id \in DOMAIN cache /\ id \in DOMAIN cache' /\ cache'[id] # cache[id]
\* the step is a creation, an execution or a result query for the identifier
OperatesOn(id) ==
    \/ \E p \in Handlers : pc'[p] # pc[p] /\ task_id'[p] = id
    \/ id \in queue /\ id \notin queue'

\* C18: a step changes the store record or the cache entry of an identifier
\* only when it is a step of a creation, an execution or a result query for
\* that identifier; every other identifier keeps its record and its entry.
C18_OtherIdsUntouched ==
    [][\A id \in TaskIds : Touched(id) => OperatesOn(id)]_vars

\* one task has its result cached while another has a terminal record and no
\* cache entry
C18_Witness ==
    \E a, b \in TaskIds :
      /\ a # b
      /\ a \in DOMAIN cache
      /\ b \in DOMAIN store /\ b \notin DOMAIN cache
      /\ store[b].status \in Terminal
      /\ \E p \in Handlers : Answered(p, "results") /\ task_id[p] = a

\* C19: with one terminal transition per task, every cache entry belongs to a
\* task that has a record, and equals the serialized result the store holds
\* for that task now.
C19_CacheAgreesWithStore ==
    \A id \in DOMAIN cache :
      /\ id \in DOMAIN store
      /\ cache[id] = dumps(TaskCrud_get_results(store, id))

\* a query was answered from a cache entry of a task that ended in error
C19_Witness ==
    \E p \in Handlers :
      /\ Answered(p, "results")
      /\ db_results[p] = None
      /\ task_id[p] \in DOMAIN cache
      /\ response[p] = Write(cache[task_id[p]])
      /\ store[task_id[p]].status = ERROR

\* the result queries for the identifier that went past the cache lookup
PastCache(id) ==
    {p \in Handlers : /\ handler[p] = "results" /\ task_id[p] = id
                      /\ pc[p] \in {"set", "done"}}

\* C20: while an identifier has no record it has no cache entry, and every
\* result query answered for it read the store itself and got the
\* TaskNotFoundError answer: none was served from the cache.
C20_MissingNotCached ==
    \A id \in TaskIds \ DOMAIN store :
      /\ id \notin DOMAIN cache
      /\ storeReads[id] = Cardinality(PastCache(id))
      /\ \A p \in PastCache(id) :
           /\ pc[p] = "done"
           /\ response[p] = Error(ResultsPrefix, "TaskNotFoundError")

\* two queries in a row for an identifier without a record
C20_Witness ==
    \E p, q \in Handlers :
      /\ p < q
      /\ Answered(p, "results") /\ Answered(q, "results")
      /\ task_id[p] = task_id[q]
      /\ task_id[p] \notin DOMAIN store
      /\ storeReads[task_id[p]] = 2
      /\ response[q] = Error(ResultsPrefix, "TaskNotFoundError")

====
